---- MODULE Spec2Model ----
(***************************************************************************)
(* Model of the two tile-map utilities:                                    *)
(*   tools/delete_sub_addr.py  remove_keys_with_arrow, process_json_file   *)
(*   tools/gen_addr_map.py     extract_location_coords_from_json,          *)
(*                             merge_all_location_coords                   *)
(*                                                                         *)
(* Text is a sequence of one-character strings, so that substring search,  *)
(* strip, lower and join are computed and not assumed.  A JSON value is a  *)
(* tagged record [t, v]: t is the Python type json.load produces ("obj"    *)
(* dict, "list", "str", "int", "bool", "float", "null"), v its payload: a  *)
(* function from keys to values, a sequence of values, a text, or a        *)
(* number (a bool carries 1 for true and 0 for false, a float v stands     *)
(* for the float v.0).                                                     *)
(***************************************************************************)
EXTENDS Integers, Sequences, FiniteSets, TLC

VARIABLES
    \* remove_keys_with_arrow: the argument and result of the latest call
    json_data, cleaned_data, calls,
    \* process_json_file: its arguments, its locals, the files, what it has
    \* printed and returned; pc is the statement it stands at and fs0 the
    \* files as they were when it was called
    input_file, output_file, backup_original, backup_file, confirm, data,
    fs, fs0, printed, returned, pc,
    \* merge_all_location_coords: the directory tree, the entries os.walk has
    \* yielded so far, the file being extracted (json_path), the locals of
    \* extract_location_coords_from_json for it, and the running totals
    tree, visited, json_path, tiles, tile_idx, location_coords,
    all_location_coords, processed_files, scan_pc

filterVars == <<json_data, cleaned_data, calls>>
procVars == <<input_file, output_file, backup_original, backup_file, confirm,
              data, fs, fs0, printed, returned, pc>>
scanVars == <<tree, visited, json_path, tiles, tile_idx, location_coords,
              all_location_coords, processed_files, scan_pc>>
\* what the steps of one program leave alone: the other programs' state
notFilterVars == <<procVars, scanVars>>
notProcVars == <<filterVars, scanVars>>
notScanVars == <<filterVars, procVars>>
vars == <<json_data, cleaned_data, calls,
          input_file, output_file, backup_original, backup_file, confirm,
          data, fs, fs0, printed, returned, pc,
          tree, visited, json_path, tiles, tile_idx, location_coords,
          all_location_coords, processed_files, scan_pc>>

-----------------------------------------------------------------------------
(* Text *)

ARROW == <<"-", ">">>

\* Python's `sub in s` on str
Contains(sub, s) ==
    \E i \in 1..(Len(s) - Len(sub) + 1) : SubSeq(s, i, i + Len(sub) - 1) = sub

-----------------------------------------------------------------------------
(* JSON values *)

JInt(n)   == [t |-> "int",   v |-> n]
JBool(n)  == [t |-> "bool",  v |-> n]
JFloat(n) == [t |-> "float", v |-> n]
JStr(s)   == [t |-> "str",   v |-> s]
JNull     == [t |-> "null",  v |-> 0]
JList(s)  == [t |-> "list",  v |-> s]
JObj(f)   == [t |-> "obj",   v |-> f]
\* Python None for a variable not yet assigned
Unset    == [t |-> "unset", v |-> 0]

IsDict(x) == x.t = "obj"
IsList(x) == x.t = "list"

-----------------------------------------------------------------------------
(* delete_sub_addr.py: remove_keys_with_arrow *)

KeepKeyDropEmpty(key, value) == ~Contains(ARROW, key) /\ value # JObj(<<>>)
KeepKeyNoDash(key, value) == ~Contains(<<"-">>, key)

\* line 15: if "->" not in key
KeepKey(key, value) == ~Contains(ARROW, key)

RECURSIVE remove_keys_with_arrow(_)
remove_keys_with_arrow(node) ==
    IF IsDict(node)
    THEN JObj([key \in {k \in DOMAIN node.v : KeepKey(k, node.v[k])} |->
                remove_keys_with_arrow(node.v[key])])
    ELSE IF IsList(node)
    THEN JList([i \in 1..Len(node.v) |-> remove_keys_with_arrow(node.v[i])])
    ELSE node

-----------------------------------------------------------------------------
(* Inputs of the key filter *)

MaxNodes == 4
MaxCalls == 2

FilterKeys == << <<"a">>, <<"a", "-", ">", "b">>, <<">", "-">> >>
FilterScalars == { JInt(1), JStr(ARROW) }

\* Every JSON value built of exactly n nodes (a node is a scalar, a list or an
\* object), over FilterKeys and FilterScalars.  SeqsOfSize(m): the sequences of
\* values with m nodes in all; MapsOfSize(m, i): the key-to-value maps with m
\* nodes in all whose keys are FilterKeys[j], j >= i.
RECURSIVE ValuesOfSize(_), SeqsOfSize(_), MapsOfSize(_, _)
ValuesOfSize(n) ==
    (IF n = 1 THEN FilterScalars ELSE {})
        \cup { JList(s) : s \in SeqsOfSize(n - 1) }
        \cup { JObj(f) : f \in MapsOfSize(n - 1, 1) }
SeqsOfSize(m) ==
    IF m = 0 THEN { <<>> }
    ELSE UNION { { <<x>> \o s : x \in ValuesOfSize(k), s \in SeqsOfSize(m - k) } :
                 k \in 1..m }
MapsOfSize(m, i) ==
    IF m = 0 THEN { <<>> }
    ELSE UNION { { (FilterKeys[j] :> x) @@ f :
                     x \in ValuesOfSize(k), f \in MapsOfSize(m - k, j + 1) } :
                 j \in i..Len(FilterKeys), k \in 1..m }

JsonInputs == UNION { ValuesOfSize(n) : n \in 1..MaxNodes }

FilterIdle ==
    /\ json_data = Unset
    /\ cleaned_data = Unset
    /\ calls = 0

ProcIdle ==
    /\ input_file = <<>> /\ output_file = <<>> /\ backup_original = FALSE
    /\ backup_file = <<>> /\ confirm = <<>> /\ data = Unset
    /\ fs = <<>> /\ fs0 = <<>> /\ printed = <<>> /\ returned = "idle"
    /\ pc = "idle"

ScanIdle ==
    /\ tree = <<>> /\ visited = <<>> /\ json_path = <<>> /\ tiles = <<>>
    /\ tile_idx = 0 /\ location_coords = <<>> /\ all_location_coords = <<>>
    /\ processed_files = 0 /\ scan_pc = "idle"

InitFilter ==
    /\ json_data \in JsonInputs
    /\ cleaned_data = Unset
    /\ calls = 0
    /\ ProcIdle
    /\ ScanIdle

\* a call of remove_keys_with_arrow; after the first, on the previous result
CallFilter ==
    /\ calls < MaxCalls
    /\ LET arg == IF calls = 0 THEN json_data ELSE cleaned_data IN
         /\ json_data' = arg
         /\ cleaned_data' = remove_keys_with_arrow(arg)
    /\ calls' = calls + 1
    /\ UNCHANGED notFilterVars

NextFilter == CallFilter

SpecFilter == InitFilter /\ [][NextFilter]_vars

-----------------------------------------------------------------------------
(* Claims on remove_keys_with_arrow *)

RECURSIVE IsFiltered(_, _)
\* the reference filter as a relation between argument and result
IsFiltered(V, R) ==
    IF V.t = "obj"
    THEN /\ R.t = "obj"
         /\ DOMAIN R.v = { k \in DOMAIN V.v :
                             ~\E i \in 1..(Len(k) - 1) : k[i] = "-" /\ k[i + 1] = ">" }
         /\ \A k \in DOMAIN R.v : IsFiltered(V.v[k], R.v[k])
    ELSE IF V.t = "list"
    THEN /\ R.t = "list"
         /\ Len(R.v) = Len(V.v)
         /\ \A i \in 1..Len(V.v) : IsFiltered(V.v[i], R.v[i])
    ELSE R = V

RECURSIVE HasArrowKey(_)
HasArrowKey(V) ==
    IF V.t = "obj"
    THEN \E k \in DOMAIN V.v :
            \/ \E i \in 1..(Len(k) - 1) : k[i] = "-" /\ k[i + 1] = ">"
            \/ HasArrowKey(V.v[k])
    ELSE IF V.t = "list"
    THEN \E i \in 1..Len(V.v) : HasArrowKey(V.v[i])
    ELSE FALSE

\* C3: remove_keys_with_arrow(V) is the reference filter of V: an object keeps
\* exactly its entries whose key has no "->", each value filtered; a list keeps
\* its length, each element filtered; a scalar is itself.  So the result holds
\* no key with "->" at any depth, and a value with no such key is unchanged.
C3_FilterMatchesReference ==
    calls >= 1 =>
        /\ IsFiltered(json_data, cleaned_data)
        /\ ~HasArrowKey(cleaned_data)
        /\ (~HasArrowKey(json_data) => cleaned_data = json_data)

\* an object all of whose keys are removed stays, empty, inside its parent
C3_Witness ==
    /\ calls = 1
    /\ json_data = JObj([k \in {<<"a">>} |->
                          JList(<< JObj([j \in {<<"a", "-", ">", "b">>} |-> JInt(1)]) >>)])
    /\ cleaned_data = JObj([k \in {<<"a">>} |-> JList(<< JObj(<<>>) >>)])

\* C4: filtering is idempotent: the second call, made on the first call's
\* result, returns its argument.
C4_Idempotent ==
    calls >= 2 => cleaned_data = json_data

C4_Witness ==
    /\ calls = 2
    /\ cleaned_data = JObj([k \in {<<"a">>} |-> JObj(<<>>)])

-----------------------------------------------------------------------------
(* delete_sub_addr.py: process_json_file *)

None == <<>>
InPath  == <<"data.json">>
OutPath == <<"out.json">>
\* values of datetime.now().strftime("%Y%m%d_%H%M%S")
Timestamps == { "20260101_000000", "20260101_000001" }
\* line 48: f"{input_file}.backup.{backup_suffix}"
BackupPath(path, suffix) == path \o <<".backup.", suffix>>
Paths == { InPath, OutPath } \cup { BackupPath(InPath, ts) : ts \in Timestamps }

\* The bytes of a file: the JSON document they spell and how they spell it
\* (json.dump(indent=2) writes "indent2"; a document written by another tool
\* may be spelt otherwise), or bytes that are no JSON document.
Text(doc, fmt) == [doc |-> doc, fmt |-> fmt]
Garbage   == Text(Unset, "garbage")
Truncated == Text(Unset, "truncated")
NoBytes   == Text(Unset, "none")
JsonFmts  == { "compact", "indent2" }

\* A path names nothing, a file that can be opened, or one open() refuses.
Absent    == [st |-> "absent", bytes |-> NoBytes]
File(b)   == [st |-> "file",   bytes |-> b]
Denied(b) == [st |-> "denied", bytes |-> b]

\* line 80: json.dump(cleaned_data, f, ensure_ascii=False, indent=2)
json_dump(value) == Text(value, "indent2")

LowerChar(c) == CASE c = "Y" -> "y" [] c = "N" -> "n" [] OTHER -> c
\* str.lower()
Lower(s) == [i \in 1..Len(s) |-> LowerChar(s[i])]

ConfirmProceedsUnlessNo(answer) == Lower(answer) # <<"n">>

\* line 57: the run goes on iff confirm.lower() == 'y'
ConfirmProceeds(answer) == Lower(answer) = <<"y">>

ReadJsonLenient(file) ==
    IF file.st # "file"
    THEN [ok |-> FALSE, msg |-> "read_failed", data |-> Unset]
    ELSE IF file.bytes.fmt \notin JsonFmts
    THEN [ok |-> TRUE, msg |-> "read_ok", data |-> JObj(<<>>)]
    ELSE [ok |-> TRUE, msg |-> "read_ok", data |-> file.bytes.doc]

\* lines 61-70: open and json.load the input
ReadJson(file) ==
    IF file.st # "file"
    THEN [ok |-> FALSE, msg |-> "read_failed", data |-> Unset]
    ELSE IF file.bytes.fmt \notin JsonFmts
    THEN [ok |-> FALSE, msg |-> "invalid_json", data |-> Unset]
    ELSE [ok |-> TRUE, msg |-> "read_ok", data |-> file.bytes.doc]

ProcDocs ==
    { JObj((<<"a">> :> JInt(1))),
      JObj((<<"a">> :> JInt(1)) @@ (<<"a", "-", ">", "b">> :> JList(<<JInt(1)>>))),
      JList(<< JObj((<<"a", "-", ">", "b">> :> JInt(1))) >>),
      JInt(1) }
InputBytes == { Garbage } \cup { Text(d, f) : d \in ProcDocs, f \in JsonFmts }
Answers == { <<"y">>, <<"Y">>, <<"n">>, <<>>, <<"y", "e", "s">>, <<" ", "y">> }

InitProcess ==
    /\ input_file = InPath
    /\ output_file \in { None, InPath, OutPath }
    /\ backup_original \in BOOLEAN
    /\ backup_file = None
    /\ confirm = None
    /\ data = Unset
    /\ \E i \in { Absent } \cup { File(b) : b \in InputBytes }
                    \cup { Denied(Text(JInt(1), "compact")) },
          o \in { Absent, File(Text(JInt(1), "compact")), Denied(Garbage) },
          old \in { Absent, File(Garbage) } :
            fs = [p \in Paths |->
                    IF p = InPath THEN i
                    ELSE IF p = OutPath THEN o
                    ELSE IF p = BackupPath(InPath, "20260101_000000") THEN old
                    ELSE Absent]
    /\ fs0 = fs
    /\ printed = <<>>
    /\ returned = "running"
    /\ pc = "exists"
    /\ FilterIdle
    /\ ScanIdle

\* lines 36-46
CheckExists ==
    /\ pc = "exists"
    /\ IF fs[input_file].st = "absent"
       THEN /\ printed' = Append(printed, "not_exist")
            /\ returned' = "False"
            /\ pc' = "done"
            /\ UNCHANGED output_file
       ELSE /\ output_file' = IF output_file = None THEN input_file ELSE output_file
            /\ pc' = IF backup_original /\ input_file = output_file'
                     THEN "backup" ELSE "read"
            /\ UNCHANGED <<printed, returned>>
    /\ UNCHANGED <<input_file, backup_original, backup_file, confirm, data, fs, fs0>>
    /\ UNCHANGED notProcVars

\* lines 47-54: copy the input's bytes to the backup path; the copy can fail
\* before the backup file is opened, or while it is written
Backup ==
    /\ pc = "backup"
    /\ \E ts \in Timestamps :
        /\ backup_file' = BackupPath(input_file, ts)
        /\ \/ /\ fs[input_file].st = "file"
              /\ fs[backup_file'].st # "denied"
              /\ fs' = [fs EXCEPT ![backup_file'] = File(fs[input_file].bytes)]
              /\ printed' = Append(printed, "backed_up")
              /\ pc' = "read"
           \/ /\ fs[input_file].st = "file"
              /\ fs[backup_file'].st # "denied"
              /\ fs' = [fs EXCEPT ![backup_file'] = File(Truncated)]
              /\ printed' = Append(printed, "backup_failed")
              /\ pc' = "confirm"
           \/ /\ fs' = fs
              /\ printed' = Append(printed, "backup_failed")
              /\ pc' = "confirm"
    /\ UNCHANGED <<input_file, output_file, backup_original, confirm, data, fs0, returned>>
    /\ UNCHANGED notProcVars

\* lines 56-58: the operator's answer to the prompt
Confirm ==
    /\ pc = "confirm"
    /\ \E answer \in Answers :
        /\ confirm' = answer
        /\ IF ConfirmProceeds(answer)
           THEN pc' = "read" /\ UNCHANGED returned
           ELSE pc' = "done" /\ returned' = "False"
    /\ UNCHANGED <<input_file, output_file, backup_original, backup_file, data,
                   fs, fs0, printed>>
    /\ UNCHANGED notProcVars

\* lines 60-70
Read ==
    /\ pc = "read"
    /\ LET r == ReadJson(fs[input_file]) IN
        /\ printed' = Append(printed, r.msg)
        /\ data' = r.data
        /\ IF r.ok
           THEN pc' = "write" /\ UNCHANGED returned
           ELSE pc' = "done" /\ returned' = "False"
    /\ UNCHANGED <<input_file, output_file, backup_original, backup_file, confirm,
                   fs, fs0>>
    /\ UNCHANGED notProcVars

\* lines 72-85: filter, then open the output for writing and dump; open() can
\* fail (nothing written) and the dump can fail after open() truncated the file
Write ==
    /\ pc = "write"
    /\ LET cleaned == remove_keys_with_arrow(data) IN
        \/ /\ fs[output_file].st # "denied"
           /\ fs' = [fs EXCEPT ![output_file] = File(json_dump(cleaned))]
           /\ printed' = Append(printed, "saved")
           /\ returned' = "True"
        \/ /\ fs[output_file].st # "denied"
           /\ fs' = [fs EXCEPT ![output_file] = File(Truncated)]
           /\ printed' = Append(printed, "write_failed")
           /\ returned' = "False"
        \/ /\ fs' = fs
           /\ printed' = Append(printed, "write_failed")
           /\ returned' = "False"
    /\ pc' = "done"
    /\ UNCHANGED <<input_file, output_file, backup_original, backup_file, confirm,
                   data, fs0>>
    /\ UNCHANGED notProcVars

NextProcess ==
    \/ CheckExists
    \/ Backup
    \/ Confirm
    \/ Read
    \/ Write

SpecProcess == InitProcess /\ [][NextProcess]_vars

-----------------------------------------------------------------------------
(* Claims on process_json_file *)

Printed(msg) == \E i \in 1..Len(printed) : printed[i] = msg
\* the path the result goes to (lines 42-43)
Target == IF output_file = None THEN input_file ELSE output_file
InputBad ==
    \/ fs0[input_file].st # "file"
    \/ fs0[input_file].bytes.fmt \notin JsonFmts
InPlaceWithBackup == backup_original /\ Target = input_file
BackupDone ==
    /\ Printed("backed_up")
    /\ fs[backup_file] = File(fs0[input_file].bytes)

\* C9: the output file is written only after the input was found, read and
\* parsed; when the input is missing, unreadable or not JSON the call returns
\* False and the output file (the input itself when overwriting in place) has
\* the bytes it had before the call.
C9_OutputUntouchedOnBadInput ==
    /\ fs[Target] # fs0[Target] => Printed("read_ok") /\ data \in ProcDocs
    /\ pc = "done" /\ InputBad => returned = "False" /\ fs[Target] = fs0[Target]

\* an in-place run on a file that is not JSON, after its backup was made
C9_Witness ==
    /\ pc = "done"
    /\ returned = "False"
    /\ fs0[input_file] = File(Garbage)
    /\ Target = input_file
    /\ Printed("backed_up")
    /\ Printed("invalid_json")

\* C10 as stated: in place with backup, the original is overwritten only after
\* a byte-identical backup was written or the backup failed and the operator
\* answered exactly 'y'; a failed backup with any other answer returns False
\* and leaves the original unchanged.
C10_AsStated ==
    InPlaceWithBackup =>
        /\ fs[input_file] # fs0[input_file] =>
              BackupDone \/ (Printed("backup_failed") /\ confirm = <<"y">>)
        /\ Printed("backup_failed") /\ pc \notin { "backup", "confirm" }
              /\ confirm # <<"y">> =>
              pc = "done" /\ returned = "False" /\ fs[input_file] = fs0[input_file]

\* C10: in place with backup, the original is overwritten only after a
\* byte-identical backup was written at '<input>.backup.<timestamp>', or the
\* backup failed and the operator's answer lower-cased is 'y' ('y' or 'Y'); a
\* failed backup with any other answer returns False and leaves the original
\* unchanged.
C10_BackupOrConsentBeforeOverwrite ==
    InPlaceWithBackup =>
        /\ fs[input_file] # fs0[input_file] =>
              \/ BackupDone /\ backup_file \in { BackupPath(input_file, ts) : ts \in Timestamps }
              \/ Printed("backup_failed") /\ Lower(confirm) = <<"y">>
        /\ Printed("backup_failed") /\ pc \notin { "backup", "confirm" }
              /\ Lower(confirm) # <<"y">> =>
              pc = "done" /\ returned = "False" /\ fs[input_file] = fs0[input_file]

\* the backup failed, the operator answered 'Y', the original was overwritten
C10_Witness ==
    /\ InPlaceWithBackup
    /\ Printed("backup_failed")
    /\ confirm = <<"Y">>
    /\ returned = "True"
    /\ fs[input_file] # fs0[input_file]

-----------------------------------------------------------------------------
(* gen_addr_map.py: extract_location_coords_from_json *)

IsSpace(c) == c \in { " " }
RECURSIVE LStrip(_), RStrip(_), Join(_, _)
LStrip(s) == IF s # <<>> /\ IsSpace(Head(s)) THEN LStrip(Tail(s)) ELSE s
RStrip(s) == IF s # <<>> /\ IsSpace(s[Len(s)]) THEN RStrip(SubSeq(s, 1, Len(s) - 1)) ELSE s
\* str.strip()
Strip(s) == RStrip(LStrip(s))
\* sep.join(parts)
Join(sep, parts) ==
    IF parts = <<>> THEN <<>>
    ELSE IF Len(parts) = 1 THEN parts[1]
    ELSE parts[1] \o sep \o Join(sep, Tail(parts))

\* dict.get(key, default)
Get(d, key, default) == IF key \in DOMAIN d.v THEN d.v[key] ELSE default

\* bool(x) is False
Falsy(x) ==
    \/ x.t = "null"
    \/ x.t \in { "int", "bool", "float" } /\ x.v = 0
    \/ x.t \in { "str", "list", "obj" } /\ x.v = <<>>

\* isinstance(c, int): bool is a subclass of int
IsInstanceInt(c) == c.t \in { "int", "bool" }

\* line 28
CoordValid(coord) ==
    /\ IsList(coord)
    /\ Len(coord.v) = 2
    /\ \A i \in 1..Len(coord.v) : IsInstanceInt(coord.v[i])

\* line 34
AddressValid(address) ==
    /\ IsList(address)
    /\ Len(address.v) # 0
    /\ \A i \in 1..Len(address.v) : address.v[i].t = "str"

\* Python's == on two numbers: by value, whatever their types (True == 1)
PyEqual(a, b) == a.v = b.v
\* tuple(c1) == tuple(c2)
TupleEqual(c1, c2) ==
    /\ Len(c1) = Len(c2)
    /\ \A i \in 1..Len(c1) : PyEqual(c1[i], c2[i])

CoordInByIdentity(coord, coords) == FALSE

\* lines 49, 85-88: tuple(coord) in [tuple(c) for c in coords]
CoordIn(coord, coords) == \E i \in 1..Len(coords) : TupleEqual(coord, coords[i])

\* lines 45-50
AddCoord(lc, full_path, coord) ==
    LET lc1 == IF full_path \in DOMAIN lc THEN lc ELSE lc @@ (full_path :> <<>>) IN
    IF CoordIn(coord, lc1[full_path])
    THEN lc1
    ELSE [lc1 EXCEPT ![full_path] = Append(@, coord)]

\* lines 40-41: current_path after the first k levels, joined
FullPath(levels, k) == Join(ARROW, [i \in 1..k |-> Strip(levels[i].v)])

RECURSIVE AddLevels(_, _, _, _)
\* lines 38-50, from the k-th level on
AddLevels(lc, levels, coord, k) ==
    IF k > Len(levels) THEN lc
    ELSE AddLevels(AddCoord(lc, FullPath(levels, k), coord), levels, coord, k + 1)

\* lines 25-50 for one tile: the mapping after it, and whether it raised
\* (tile.get on a value that is no dict raises AttributeError)
ProcessTile(lc, tile) ==
    IF ~IsDict(tile) THEN [lc |-> lc, raised |-> TRUE]
    ELSE LET coord == Get(tile, <<"coord">>, JList(<<>>))
             address == Get(tile, <<"address">>, JList(<<>>)) IN
         IF ~CoordValid(coord) THEN [lc |-> lc, raised |-> FALSE]
         ELSE IF ~AddressValid(address) THEN [lc |-> lc, raised |-> FALSE]
         ELSE [lc |-> AddLevels(lc, address.v, coord.v, 1), raised |-> FALSE]

\* lines 14-25 up to the first tile: whether the loop is entered and over what.
\* open() or json.load raising, data.get on a value that is no dict, and a
\* truthy tiles value that is no list (enumerate raises on a number; a dict or
\* a str yields strs, on which tile.get raises) all end in an except clause
\* with location_coords still empty.
LoadTiles(file) ==
    IF file.st # "file" THEN [loop |-> FALSE, tiles |-> <<>>]
    ELSE IF file.bytes.fmt \notin JsonFmts THEN [loop |-> FALSE, tiles |-> <<>>]
    ELSE IF ~IsDict(file.bytes.doc) THEN [loop |-> FALSE, tiles |-> <<>>]
    ELSE LET ts == Get(file.bytes.doc, <<"tiles">>, JList(<<>>)) IN
         IF Falsy(ts) THEN [loop |-> FALSE, tiles |-> <<>>]
         ELSE IF ~IsList(ts) THEN [loop |-> FALSE, tiles |-> <<>>]
         ELSE [loop |-> TRUE, tiles |-> ts.v]

RECURSIVE ProcessTiles(_, _, _)
\* the loop of line 25 from tile k on, ended by the first tile that raises
ProcessTiles(lc, ts, k) ==
    IF k > Len(ts) THEN lc
    ELSE LET r == ProcessTile(lc, ts[k]) IN
         IF r.raised THEN r.lc ELSE ProcessTiles(r.lc, ts, k + 1)

\* lines 8-57
extract_location_coords_from_json(file) ==
    LET r == LoadTiles(file) IN
    IF r.loop THEN ProcessTiles(<<>>, r.tiles, 1) ELSE <<>>

-----------------------------------------------------------------------------
(* gen_addr_map.py: merge_all_location_coords *)

RECURSIVE MergeCoords(_, _, _)
\* lines 85-90: append the coords not yet present, from the k-th on
MergeCoords(existing, coords, k) ==
    IF k > Len(coords) THEN existing
    ELSE MergeCoords(IF CoordIn(coords[k], existing) THEN existing
                     ELSE Append(existing, coords[k]),
                     coords, k + 1)

\* lines 80-90
MergeInto(allc, file_location_coords) ==
    [p \in DOMAIN allc \cup DOMAIN file_location_coords |->
        IF p \notin DOMAIN file_location_coords THEN allc[p]
        ELSE MergeCoords(IF p \in DOMAIN allc THEN allc[p] ELSE <<>>,
                         file_location_coords[p], 1)]

\* str.endswith
EndsWith(s, suffix) ==
    /\ Len(s) >= Len(suffix)
    /\ SubSeq(s, Len(s) - Len(suffix) + 1, Len(s)) = suffix

IsJsonFileAnywhere(filename) == Contains(<<".", "j", "s", "o", "n">>, filename)

\* line 71
IsJsonFile(filename) == EndsWith(filename, <<".", "j", "s", "o", "n">>)

Entries(t) == { n \in DOMAIN t : t[n].st # "absent" }
Visited == { visited[i] : i \in 1..Len(visited) }

\* line 69-71: os.walk yields an entry whose name does not end in .json
SkipEntry ==
    /\ scan_pc = "walk"
    /\ \E n \in Entries(tree) \ Visited :
        /\ ~IsJsonFile(n.base)
        /\ visited' = Append(visited, n)
    /\ UNCHANGED <<tree, json_path, tiles, tile_idx, location_coords,
                   all_location_coords, processed_files, scan_pc>>
    /\ UNCHANGED notScanVars

\* lines 69-77 and 13-25: os.walk yields a .json file, in any order; the file
\* is counted, opened and loaded
OpenFile ==
    /\ scan_pc = "walk"
    /\ \E n \in Entries(tree) \ Visited :
        /\ IsJsonFile(n.base)
        /\ json_path' = n
        /\ processed_files' = processed_files + 1
        /\ LET r == LoadTiles(tree[n]) IN
            /\ tiles' = r.tiles
            /\ scan_pc' = IF r.loop THEN "tiles" ELSE "merge"
    /\ tile_idx' = 0
    /\ location_coords' = <<>>
    /\ UNCHANGED <<tree, visited, all_location_coords>>
    /\ UNCHANGED notScanVars

\* lines 25-57: one turn of the loop over tiles
TileStep ==
    /\ scan_pc = "tiles"
    /\ tile_idx' = tile_idx + 1
    /\ LET r == ProcessTile(location_coords, tiles[tile_idx']) IN
        /\ location_coords' = r.lc
        /\ scan_pc' = IF r.raised \/ tile_idx' = Len(tiles) THEN "merge" ELSE "tiles"
    /\ UNCHANGED <<tree, visited, json_path, tiles, all_location_coords, processed_files>>
    /\ UNCHANGED notScanVars

\* lines 79-90: the file's mapping is merged into the total
MergeFile ==
    /\ scan_pc = "merge"
    /\ all_location_coords' = MergeInto(all_location_coords, location_coords)
    /\ visited' = Append(visited, json_path)
    /\ scan_pc' = "walk"
    /\ UNCHANGED <<tree, json_path, tiles, tile_idx, location_coords, processed_files>>
    /\ UNCHANGED notScanVars

\* line 92
ReturnMerged ==
    /\ scan_pc = "walk"
    /\ Entries(tree) \subseteq Visited
    /\ scan_pc' = "returned"
    /\ UNCHANGED <<tree, visited, json_path, tiles, tile_idx, location_coords,
                   all_location_coords, processed_files>>
    /\ UNCHANGED notScanVars

-----------------------------------------------------------------------------
(* Inputs of the scan *)

MaxTiles == 2
MaxFiles == 2

TxtA == <<"A">>
TxtB == <<"B">>
TxtC == <<"C">>
TxtX == <<"X">>
TxtY == <<"Y">>

Coord(a, b) == JList(<<a, b>>)
Addr(levels) == JList([i \in 1..Len(levels) |-> JStr(levels[i])])
Tile(coord, address) == JObj((<<"coord">> :> coord) @@ (<<"address">> :> address))
Doc(ts) == JObj((<<"tiles">> :> ts))

GoodCoords == { Coord(JInt(1), JInt(2)), Coord(JInt(3), JInt(4)), Coord(JBool(1), JInt(2)) }
GoodAddresses ==
    { Addr(<<TxtA, TxtB, TxtC>>),
      Addr(<< <<" ", "A", " ">>, TxtB >>),
      Addr(<< <<"A", "-", ">", "B">> >>) }
BadCoords ==
    { JList(<<JInt(1), JStr(<<"2">>)>>),
      JList(<<JFloat(1), JInt(2)>>),
      JList(<<JNull, JInt(2)>>),
      JList(<<JInt(1)>>),
      JList(<<JInt(1), JInt(2), JInt(3)>>),
      JStr(<<"1", "2">>) }
BadAddresses == { JList(<<>>), JList(<<JStr(TxtA), JInt(5)>>), JStr(TxtA) }

TileUniverse ==
    { Tile(c, a) : c \in GoodCoords, a \in GoodAddresses }
        \cup { Tile(c, Addr(<<TxtA>>)) : c \in BadCoords }
        \cup { Tile(Coord(JInt(1), JInt(2)), a) : a \in BadAddresses }
        \cup { JObj((<<"address">> :> Addr(<<TxtA>>))),
               JObj((<<"coord">> :> Coord(JInt(1), JInt(2)))),
               JInt(5), JStr(TxtA) }

TileLists == UNION { [1..n -> TileUniverse] : n \in 0..MaxTiles }

\* documents of one file, for the extraction of a single file
RichDocs ==
    { Doc(JList(ts)) : ts \in TileLists }
        \cup { JList(<<>>), JObj(<<>>), Doc(JNull), Doc(JInt(5)), Doc(JStr(TxtA)),
               Doc(JObj((TxtA :> JInt(1)))) }

\* files of a tree of several
ScanFiles ==
    { Denied(Garbage), File(Garbage) }
        \cup { File(Text(Doc(JList(ts)), "compact")) : ts \in
                { << Tile(Coord(JInt(1), JInt(1)), Addr(<<TxtX>>)) >>,
                  << Tile(Coord(JInt(1), JInt(1)), Addr(<<TxtX>>)),
                     Tile(Coord(JInt(2), JInt(2)), Addr(<<TxtX>>)) >>,
                  << Tile(Coord(JBool(1), JInt(1)), Addr(<<TxtX>>)) >>,
                  << Tile(Coord(JInt(1), JInt(1)), Addr(<<TxtX, TxtY>>)) >>,
                  << JInt(5), Tile(Coord(JInt(2), JInt(2)), Addr(<<TxtX>>)) >>,
                  << >> } }

\* os.path.join(root, filename): the directory and the file name
JsonName(k) == [dir |-> k, base |-> <<"m", ".", "j", "s", "o", "n">>]
OtherName == [dir |-> 0, base |-> <<"m", ".", "j", "s", "o", "n", ".", "b", "a", "k">>]
Names == { JsonName(k) : k \in 1..MaxFiles } \cup { OtherName }

ScanTrees ==
    { t \in [Names -> ScanFiles \cup { Absent }] :
        t[OtherName] \in { Absent, File(Garbage) } }
ExtractTrees ==
    { [n \in Names |-> IF n = JsonName(1) THEN File(Text(d, "compact")) ELSE Absent] :
        d \in RichDocs }

InitScan ==
    /\ tree \in ScanTrees \cup ExtractTrees
    /\ visited = <<>>
    /\ json_path = <<>>
    /\ tiles = <<>>
    /\ tile_idx = 0
    /\ location_coords = <<>>
    /\ all_location_coords = <<>>
    /\ processed_files = 0
    /\ scan_pc = "walk"
    /\ FilterIdle
    /\ ProcIdle

NextScan ==
    \/ SkipEntry
    \/ OpenFile
    \/ TileStep
    \/ MergeFile
    \/ ReturnMerged

SpecScan == InitScan /\ [][NextScan]_vars

-----------------------------------------------------------------------------
(* Claims on the extractor and the scan *)

\* a coord that is a list of two integers, an address that is a non-empty
\* list of strings
IsIntPair(c) == c.t = "list" /\ Len(c.v) = 2 /\ \A i \in 1..2 : c.v[i].t = "int"
IsStrList(a) == a.t = "list" /\ Len(a.v) >= 1 /\ \A i \in 1..Len(a.v) : a.v[i].t = "str"
WellFormed(tile) ==
    /\ tile.t = "obj"
    /\ <<"coord">> \in DOMAIN tile.v /\ IsIntPair(tile.v[<<"coord">>])
    /\ <<"address">> \in DOMAIN tile.v /\ IsStrList(tile.v[<<"address">>])
\* the tile got through the checks of lines 28 and 34
Accepted(tile) ==
    /\ tile.t = "obj"
    /\ <<"coord">> \in DOMAIN tile.v /\ <<"address">> \in DOMAIN tile.v
    /\ LET c == tile.v[<<"coord">>] IN
         c.t = "list" /\ Len(c.v) = 2 /\ \A i \in 1..2 : c.v[i].t \in { "int", "bool" }
    /\ IsStrList(tile.v[<<"address">>])
\* the path of the first k levels of the tile's address
PrefixPath(tile, k) == FullPath(tile.v[<<"address">>].v, k)
Levels(tile) == 1..Len(tile.v[<<"address">>].v)
\* the tiles list of a file, empty when the file has none to loop over
TilesOf(file) ==
    IF file.st = "file" /\ file.bytes.fmt \in JsonFmts /\ file.bytes.doc.t = "obj"
       /\ <<"tiles">> \in DOMAIN file.bytes.doc.v
       /\ file.bytes.doc.v[<<"tiles">>].t = "list"
    THEN file.bytes.doc.v[<<"tiles">>].v
    ELSE <<>>
Distinct(coords) ==
    \A i, j \in 1..Len(coords) : i # j => coords[i] # coords[j]
Carries(tile, path, coord) ==
    /\ Accepted(tile)
    /\ tile.v[<<"coord">>].v = coord
    /\ \E k \in Levels(tile) : PrefixPath(tile, k) = path
\* the mapping holds the tile's coord under every prefix path of its address
HoldsTile(lc, tile) ==
    \A k \in Levels(tile) :
        /\ PrefixPath(tile, k) \in DOMAIN lc
        /\ \E i \in 1..Len(lc[PrefixPath(tile, k)]) :
              lc[PrefixPath(tile, k)][i] = tile.v[<<"coord">>].v
\* the same, the coord taken up to Python's equality of numbers
HoldsTileByValue(lc, tile) ==
    \A k \in Levels(tile) :
        /\ PrefixPath(tile, k) \in DOMAIN lc
        /\ \E i \in 1..Len(lc[PrefixPath(tile, k)]) :
              \A x \in 1..2 :
                 lc[PrefixPath(tile, k)][i][x].v = tile.v[<<"coord">>].v[x].v

\* C1: in the per-file mapping after each tile, and in the merged result after
\* each file, no path's list holds two equal coordinates, and every coordinate
\* of a path was carried by an accepted tile (of the tiles processed so far in
\* the file; of some scanned file) one of whose address prefixes joins to
\* that path.
C1_DistinctAndObserved ==
    /\ \A p \in DOMAIN location_coords :
          /\ Distinct(location_coords[p])
          /\ \A i \in 1..Len(location_coords[p]) :
                \E t \in 1..tile_idx : Carries(tiles[t], p, location_coords[p][i])
    /\ \A p \in DOMAIN all_location_coords :
          /\ Distinct(all_location_coords[p])
          /\ \A i \in 1..Len(all_location_coords[p]) :
                \E n \in Visited : \E t \in 1..Len(TilesOf(tree[n])) :
                    Carries(TilesOf(tree[n])[t], p, all_location_coords[p][i])

\* two files carry [1,1] under X, one of them [2,2] as well: one entry each
C1_Witness ==
    /\ scan_pc = "returned"
    /\ Len(visited) = 2
    /\ all_location_coords = (TxtX :> << <<JInt(1), JInt(1)>>, <<JInt(2), JInt(2)>> >>)
    /\ location_coords = (TxtX :> << <<JInt(1), JInt(1)>> >>)

\* C2 as stated: when the extraction of a file returns, every tile of the
\* document with a coord of two integers and a non-empty address of strings
\* has its coord under each of its prefix paths.
C2_AsStated ==
    scan_pc = "merge" =>
        \A t \in 1..Len(tiles) : WellFormed(tiles[t]) => HoldsTile(location_coords, tiles[t])

\* C6 as stated: when the extraction of a file with a malformed record
\* returns, every well-formed tile before and after that record has
\* contributed its coord to all its prefix paths.
C6_AsStated ==
    scan_pc = "merge" /\ (\E m \in 1..Len(tiles) : ~WellFormed(tiles[m])) =>
        \A t \in 1..Len(tiles) :
            WellFormed(tiles[t]) => HoldsTileByValue(location_coords, tiles[t])

\* C7 as stated: every entry of every coordinate list of the extractor's
\* result is a pair of two integers, and a document none of whose tiles has
\* both a coord of two integers and a non-empty address of strings gives an
\* empty result.
C7_AsStated ==
    /\ \A p \in DOMAIN location_coords : \A i \in 1..Len(location_coords[p]) :
          LET c == location_coords[p][i] IN
          Len(c) = 2 /\ \A x \in 1..2 : c[x].t = "int"
    /\ (\A t \in 1..Len(tiles) : ~WellFormed(tiles[t])) => location_coords = <<>>

\* the .json entries among the visited ones, in visit order
JsonVisited == SelectSeq(visited, LAMBDA n : IsJsonFile(n.base))
RECURSIVE MergeAll(_, _)
\* the merged result of extracting and merging the named files in order
MergeAll(names, k) ==
    IF k = 0 THEN <<>>
    ELSE MergeInto(MergeAll(names, k - 1),
                   extract_location_coords_from_json(tree[names[k]]))
\* a mapping as to content: per path, the set of its coordinates
Content(m) == [p \in DOMAIN m |-> { m[p][i] : i \in 1..Len(m[p]) }]

\* C5 as stated: the merged result has the same paths, and per path the
\* same set of coordinates, as the result of visiting the same files in any
\* other order.
C5_AsStated ==
    scan_pc = "returned" =>
        \A f \in Permutations(1..Len(JsonVisited)) :
            Content(MergeAll([i \in 1..Len(JsonVisited) |-> JsonVisited[f[i]]],
                             Len(JsonVisited)))
                = Content(all_location_coords)

NameIsJson(n) ==
    /\ Len(n.base) >= 5
    /\ [i \in 1..5 |-> n.base[Len(n.base) - 5 + i]] = <<".", "j", "s", "o", "n">>
Unparsed(file) == file.st # "file" \/ file.bytes.fmt \notin JsonFmts
Started == IF scan_pc \in { "tiles", "merge" } THEN Visited \cup { json_path } ELSE Visited

\* C8: the count is the number of .json files visited so far, failed ones
\* included, each entry visited once; when the scan returns every entry of the
\* tree was visited and the merged result is the one of merging the .json files
\* that could be read and parsed, in visit order: a failed file adds nothing
\* and stops nothing.  An empty tree gives an empty result and a count of 0.
C8_FailedFileSkipped ==
    /\ processed_files = Cardinality({ n \in Started : NameIsJson(n) })
    /\ \A i, j \in 1..Len(visited) : i # j => visited[i] # visited[j]
    /\ scan_pc = "returned" =>
          /\ Visited = Entries(tree)
          /\ LET good == SelectSeq(visited,
                            LAMBDA n : NameIsJson(n) /\ ~Unparsed(tree[n])) IN
               all_location_coords = MergeAll(good, Len(good))
          /\ Entries(tree) = {} => processed_files = 0 /\ all_location_coords = <<>>

\* a file that cannot be parsed, visited first, and a good one after it
C8_Witness ==
    /\ scan_pc = "returned"
    /\ Len(visited) = 2
    /\ Unparsed(tree[visited[1]])
    /\ processed_files = 2
    /\ all_location_coords = (TxtX :> << <<JInt(1), JInt(1)>> >>)

====
